---- MODULE Spec2Model ----
(***************************************************************************)
(* Model of flask-router (src/main.py): the decorator chain builder        *)
(* dispatch_request, the attribute forwarding of Component, and the route  *)
(* tree flattener Router.add_routes / Router.add_route.                    *)
(*                                                                         *)
(* Python lists are heap objects (a reference is an index into heap), so   *)
(* that aliasing and in-place mutation (list.pop) are visible.  Strings    *)
(* are TLA+ strings and '{}{}'.format(a, b) is their concatenation.        *)
(***************************************************************************)
EXTENDS Integers, Sequences, FiniteSets, TLC

VARIABLES
    heap,        \* the list objects; a list reference is an index into heap
    nodes,       \* the Route / Include objects of the route tree, by node id
    roots,       \* the module-level list `routes` (node ids)
    rules,       \* per flask application, the calls received by add_url_rule
    registered,  \* history: per add_routes call, what it passed to add_url_rule
    thr,         \* per request thread, the frame of dispatch_request
    ndisp        \* number of dispatch_request invocations started

vars == <<heap, nodes, roots, rules, registered, thr, ndisp>>

\* ------------------------------------------------------------------ bounds
MaxDispatch == 3
MaxFlatten == 2

Threads == {1, 2}

\* ------------------------------------------------------- classes (13-39, 152-174)
ComponentClasses == {"Component", "A", "B"}
HandlerClasses == {"Handler", "JSONAPIHandler"}

IsComponent(cls) == cls \in ComponentClasses

\* The methods a class defines itself (class body, not inherited forwarding).
ClassDefines(cls, name) ==
    /\ name = "test"
    /\ cls \in {"A", "B", "JSONAPIHandler"}

\* Handler() : the concrete object has no parent attribute.
NewHandler(cls) == [cls |-> cls]

\* Component.__init__(self, parent): self.parent = parent
NewComponent(cls, parent) == [cls |-> cls, parent |-> parent]

NoObject == [cls |-> "None"]

\* ------------------------------------------------------------ dict results
\* A dict is its (key, value) pairs in insertion order.
RECURSIVE DictHas(_, _)
DictHas(d, k) ==
    IF d = <<>> THEN FALSE
    ELSE IF Head(d)[1] = k THEN TRUE ELSE DictHas(Tail(d), k)

\* result[k] = v : replaces the value of an existing key in place, else appends.
DictSet(d, k, v) ==
    IF DictHas(d, k)
    THEN [i \in 1..Len(d) |-> IF d[i][1] = k THEN <<k, v>> ELSE d[i]]
    ELSE Append(d, <<k, v>>)

\* ------------------------------------------------- attribute lookup (27-28)
\* getattr(obj, name): the class's own method when it defines one; otherwise
\* Component.__getattr__ forwards to self.parent; a Handler without the
\* method raises AttributeError.  hops counts the __getattr__ forwardings.
\* (variant: a Component that lacks the method does not forward the lookup)
GetAttrNoForward(obj, name) ==
    IF ClassDefines(obj.cls, name)
    THEN [found |-> TRUE, owner |-> obj, hops |-> 0]
    ELSE [found |-> FALSE, owner |-> NoObject, hops |-> 0]

RECURSIVE GetAttr(_, _)
GetAttr(obj, name) ==
    IF ClassDefines(obj.cls, name)
    THEN [found |-> TRUE, owner |-> obj, hops |-> 0]
    ELSE IF IsComponent(obj.cls)
    THEN LET r == GetAttr(obj.parent, name)
         IN  [r EXCEPT !.hops = @ + 1]
    ELSE [found |-> FALSE, owner |-> NoObject, hops |-> 0]

\* obj.test(): the returned dict, the order in which the method bodies
\* finished (i.e. applied their change to the result), or the exception.
RECURSIVE CallTest(_)
CallTest(obj) ==
    LET a == GetAttr(obj, "test")
    IN  IF ~a.found
        THEN [exc |-> "AttributeError", value |-> <<>>, order |-> <<>>]
        ELSE IF a.owner.cls = "JSONAPIHandler"
        THEN \* line 155
             [exc |-> "", value |-> << <<"hello", "world">> >>,
              order |-> <<"JSONAPIHandler">>]
        ELSE \* lines 164-166 / 172-174
             LET result == CallTest(a.owner.parent)
             IN  IF result.exc # "" THEN result
                 ELSE [exc |-> "",
                       value |-> DictSet(result.value, a.owner.cls, "True"),
                       order |-> Append(result.order, a.owner.cls)]

\* controller(handler, **uri_args), lines 144-146
Controller(handler) ==
    LET r == CallTest(handler)
    IN  IF r.exc # ""
        THEN [exc |-> r.exc, printed |-> <<>>, ret |-> ""]
        ELSE [exc |-> "", printed |-> r.value, ret |-> "hello, world!"]

\* ------------------------------------------------------------ list objects
\* list.pop(): removes and returns the last item; IndexError when empty.
\* (variant: pops from the front, list.pop(0))
ListPopFront(l) ==
    IF l = <<>>
    THEN [exc |-> "IndexError", item |-> "", rest |-> <<>>]
    ELSE [exc |-> "", item |-> Head(l), rest |-> Tail(l)]

\* (variant: an empty list yields the default Handler class instead of raising)
ListPopDefault(l) ==
    IF l = <<>>
    THEN [exc |-> "", item |-> "Handler", rest |-> <<>>]
    ELSE [exc |-> "", item |-> l[Len(l)], rest |-> SubSeq(l, 1, Len(l) - 1)]

ListPop(l) ==
    IF l = <<>>
    THEN [exc |-> "IndexError", item |-> "", rest |-> <<>>]
    ELSE [exc |-> "", item |-> l[Len(l)], rest |-> SubSeq(l, 1, Len(l) - 1)]

\* handler() on line 46: a Handler class takes no argument; a Component
\* class called without its parent raises TypeError.
Instantiate0(cls) ==
    IF IsComponent(cls)
    THEN [exc |-> "TypeError", obj |-> NoObject]
    ELSE [exc |-> "", obj |-> NewHandler(cls)]

\* decorator(handler) on line 52: a Component class wraps the handler; a
\* Handler class accepts no argument and raises TypeError.
Instantiate1(cls, parent) ==
    IF IsComponent(cls)
    THEN [exc |-> "", obj |-> NewComponent(cls, parent)]
    ELSE [exc |-> "TypeError", obj |-> NoObject]

\* ------------------------------------------------ dispatch_request (42-55)
IdleFrame ==
    [pc |-> "idle", fn |-> "", decorators |-> 0, handler |-> NoObject,
     entry |-> <<>>, built |-> <<>>, called |-> FALSE, exc |-> "",
     printed |-> <<>>, ret |-> "", via |-> ""]

\* Serial serving: the one main thread takes every request.
MainThread == CHOOSE t \in Threads : \A u \in Threads : t <= u

AllIdle == \A u \in Threads : thr[u].pc = "idle"

EnterFrame(fn, ref, entry, via) ==
    [IdleFrame EXCEPT !.pc = "L45", !.fn = fn, !.decorators = ref,
                      !.entry = entry, !.via = via]

\* The list objects the tree is built from: the first group's list, the
\* first leaf's list, and the lists of the further nodes.
TreeHeap(ca, cl) == <<ca, cl, <<"B">>, <<>>>>

\* The caller's own list of a direct call by thread t.
DirectRef(t) == Len(TreeHeap(<<>>, <<>>)) + t

\* The argument lists a caller hands to dispatch_request directly.
DirectLists ==
    { <<>>,
      <<"JSONAPIHandler">>,
      <<"Handler">>,
      <<"Component", "JSONAPIHandler">>,
      <<"A", "B", "JSONAPIHandler">>,
      <<"B", "Component", "A", "JSONAPIHandler">>,
      <<"Component", "A", "Component", "JSONAPIHandler">>,
      <<"A", "Component", "Handler">> }

\* The routing table invokes a registered binding: the partial object calls
\* dispatch_request(fn=route.controller, decorators=components) with the very
\* list object bound on line 135.
Request(t, serial) ==
    /\ thr[t].pc = "idle"
    /\ ndisp < MaxDispatch
    /\ serial => t = MainThread
    /\ \E a \in DOMAIN rules : \E i \in DOMAIN rules[a] :
          LET b == rules[a][i]
          IN  thr' = [thr EXCEPT ![t] =
                        EnterFrame(b.fn, b.decorators, heap[b.decorators], "rule")]
    /\ ndisp' = ndisp + 1
    /\ UNCHANGED <<heap, nodes, roots, rules, registered>>

\* A caller invokes dispatch_request(controller, lst) with a list of its own;
\* the list object lives until the call returns.
DirectCall(t, serial) ==
    /\ thr[t].pc = "idle"
    /\ ndisp < MaxDispatch
    /\ serial => t = MainThread
    /\ \E lst \in DirectLists :
          /\ heap' = [heap EXCEPT ![DirectRef(t)] = lst]
          /\ thr' = [thr EXCEPT ![t] =
                        EnterFrame("controller", DirectRef(t), lst, "direct")]
    /\ ndisp' = ndisp + 1
    /\ UNCHANGED <<nodes, roots, rules, registered>>

\* lines 45-46: handler = decorators.pop(); handler = handler()
L45(t) ==
    /\ thr[t].pc = "L45"
    /\ LET f == thr[t]
           p == ListPop(heap[f.decorators])
           o == Instantiate0(p.item)
       IN  IF p.exc # ""
           THEN /\ thr' = [thr EXCEPT ![t].pc = "raised", ![t].exc = p.exc]
                /\ heap' = heap
           ELSE /\ heap' = [heap EXCEPT ![f.decorators] = p.rest]
                /\ IF o.exc # ""
                   THEN thr' = [thr EXCEPT ![t].pc = "raised", ![t].exc = o.exc]
                   ELSE thr' = [thr EXCEPT ![t].pc = "L50",
                                           ![t].handler = o.obj,
                                           ![t].built = Append(@, p.item)]
    /\ UNCHANGED <<nodes, roots, rules, registered, ndisp>>

\* line 50: while decorators:
L50(t) ==
    /\ thr[t].pc = "L50"
    /\ thr' = [thr EXCEPT ![t].pc =
                  IF heap[thr[t].decorators] # <<>> THEN "L51" ELSE "L55"]
    /\ UNCHANGED <<heap, nodes, roots, rules, registered, ndisp>>

\* lines 51-52: decorator = decorators.pop(); handler = decorator(handler)
L51(t) ==
    /\ thr[t].pc = "L51"
    /\ LET f == thr[t]
           p == ListPop(heap[f.decorators])
           o == Instantiate1(p.item, f.handler)
       IN  IF p.exc # ""
           THEN /\ thr' = [thr EXCEPT ![t].pc = "raised", ![t].exc = p.exc]
                /\ heap' = heap
           ELSE /\ heap' = [heap EXCEPT ![f.decorators] = p.rest]
                /\ IF o.exc # ""
                   THEN thr' = [thr EXCEPT ![t].pc = "raised", ![t].exc = o.exc]
                   ELSE thr' = [thr EXCEPT ![t].pc = "L50",
                                           ![t].handler = o.obj,
                                           ![t].built = Append(@, p.item)]
    /\ UNCHANGED <<nodes, roots, rules, registered, ndisp>>

\* line 55: return fn(handler, **uri_args)
L55(t) ==
    /\ thr[t].pc = "L55"
    /\ LET r == Controller(thr[t].handler)
       IN  thr' = [thr EXCEPT ![t].called = TRUE,
                              ![t].exc = r.exc,
                              ![t].printed = r.printed,
                              ![t].ret = r.ret,
                              ![t].pc = IF r.exc # "" THEN "raised" ELSE "done"]
    /\ UNCHANGED <<heap, nodes, roots, rules, registered, ndisp>>

\* The frame is left: the value is returned or the exception propagates.
Return(t) ==
    /\ thr[t].pc \in {"done", "raised"}
    /\ thr' = [thr EXCEPT ![t] = IdleFrame]
    /\ heap' = IF thr[t].via = "direct"
               THEN [heap EXCEPT ![DirectRef(t)] = <<>>]
               ELSE heap
    /\ UNCHANGED <<nodes, roots, rules, registered, ndisp>>

\* ------------------------------------------------------ Route, Include (58-87)
\* An Optional[str] is <<>> for None and <<s>> for the string s.
None == <<>>
Some(s) == <<s>>

\* '{}{}'.format(a, b) on two strings
Format2(a, b) == a \o b

Route(path, controller, handler, method, name, components) ==
    [kind |-> "Route", path |-> path, controller |-> controller,
     handler |-> handler, method |-> method, name |-> name,
     components |-> components]

\* routes is Optional[List]: routesNone tells None from a list.
Include(prefix, routes, routesNone, components, namespace) ==
    [kind |-> "Include", prefix |-> prefix, routes |-> routes,
     routesNone |-> routesNone, components |-> components,
     namespace |-> namespace]

\* ------------------------------------------------------------ Router (90-138)
Apps == {"app", "other"}

\* line 194: the module-level name `app`
GlobalApp == "app"

\* Router.__init__: self.app = app
Router(a) == [app |-> a]

Routers == {Router(a) : a \in Apps}

\* line 99: components = components or []  (ref 0 is None)
OrEmptyList(h, ref) ==
    IF ref = 0 \/ h[ref] = <<>>
    THEN [heap |-> Append(h, <<>>), ref |-> Len(h) + 1]
    ELSE [heap |-> h, ref |-> ref]

\* line 116: components = components + route.components  (a new list)
IncludeComponents(h, components, route) ==
    [heap |-> Append(h, h[components] \o h[route.components]),
     ref |-> Len(h) + 1]

\* (variant: the leaf's own components come before the inherited ones)
RouteComponentsLeafFirst(h, components, route) ==
    [heap |-> Append(h, h[route.components] \o h[components] \o <<route.handler>>),
     ref |-> Len(h) + 1]

\* (variant: route.components.append(route.handler), then the concatenation)
RouteComponentsInPlace(h, components, route) ==
    LET h1 == [h EXCEPT ![route.components] = Append(@, route.handler)]
    IN  [heap |-> Append(h1, h[components] \o h1[route.components]),
         ref |-> Len(h1) + 1]

\* line 131: components = components + route.components + [route.handler]
RouteComponents(h, components, route) ==
    [heap |-> Append(h, h[components] \o h[route.components] \o <<route.handler>>),
     ref |-> Len(h) + 1]

\* line 124: name = '{}{}'.format(namespace, route.name) or None
RouteName(namespace, name) ==
    LET s == Format2(namespace, name)
    IN  IF s = "" THEN None ELSE Some(s)

\* (variant: the two parts are joined with a '/')
RoutePathJoined(prefix, path) == prefix \o "/" \o path

\* line 127: path = '{}{}'.format(prefix, route.path)
RoutePath(prefix, path) == Format2(prefix, path)

\* line 138: app.add_url_rule(...) names the module-level `app`, not self.app
RuleApp(self) == GlobalApp

\* The traversal threads S = [heap, out, exc]: the heap, the add_url_rule
\* calls made so far (each tagged with the application it went to and the
\* leaf it came from), and the exception that stopped it ("" for none).
RECURSIVE AddRoutesOp(_, _, _, _, _, _, _)
RECURSIVE AddRouteOp(_, _, _, _, _, _)
RECURSIVE ForEachRoute(_, _, _, _, _, _, _)

\* lines 95-101
AddRoutesOp(self, S, routes, routesNone, components, prefix, namespace) ==
    LET c == OrEmptyList(S.heap, components)
        S1 == [S EXCEPT !.heap = c.heap]
    IN  IF routesNone
        THEN [S1 EXCEPT !.exc = "TypeError"]   \* iterating None on line 100
        ELSE ForEachRoute(self, S1, routes, 1, c.ref, prefix, namespace)

\* lines 100-101: the for loop; an exception ends it
ForEachRoute(self, S, routes, i, components, prefix, namespace) ==
    IF i > Len(routes) \/ S.exc # ""
    THEN S
    ELSE ForEachRoute(self,
                      AddRouteOp(self, S, routes[i], components, prefix, namespace),
                      routes, i + 1, components, prefix, namespace)

\* lines 103-138
AddRouteOp(self, S, r, components, prefix, namespace) ==
    LET route == nodes[r]
    IN  IF route.kind = "Include"
        THEN LET ns == Format2(namespace, route.namespace)
                 pf == Format2(prefix, route.prefix)
                 c == IncludeComponents(S.heap, components, route)
             IN  AddRoutesOp(self, [S EXCEPT !.heap = c.heap],
                             route.routes, route.routesNone, c.ref, pf, ns)
        ELSE IF route.kind = "Route"
        THEN LET name == RouteName(namespace, route.name)
                 path == RoutePath(prefix, route.path)
                 c == RouteComponents(S.heap, components, route)
                 rule == [app |-> RuleApp(self), path |-> path, name |-> name,
                          fn |-> route.controller, decorators |-> c.ref,
                          methods |-> <<route.method>>, leaf |-> r]
             IN  [S EXCEPT !.heap = c.heap, !.out = Append(@, rule)]
        ELSE S

\* add_url_rule(path, name, handler, methods=[route.method]) as the routing
\* table stores it; handler is partial(dispatch_request, fn, decorators).
AddUrlRule(c) ==
    [path |-> c.path, name |-> c.name, fn |-> c.fn,
     decorators |-> c.decorators, methods |-> c.methods]

\* The rules of S.out that went to application a, in call order.
RECURSIVE RulesFor(_, _)
RulesFor(out, a) ==
    IF out = <<>> THEN <<>>
    ELSE IF Head(out).app = a
    THEN <<AddUrlRule(Head(out))>> \o RulesFor(Tail(out), a)
    ELSE RulesFor(Tail(out), a)

Crashed == \E i \in DOMAIN registered : registered[i].raised # ""

\* api.add_routes(routes), line 197, by the Router `self`
AddRoutes(self) ==
    /\ Len(registered) < MaxFlatten
    /\ ~Crashed
    /\ ndisp = 0 /\ AllIdle     \* registration precedes serving (197, 199-202)
    /\ LET S == AddRoutesOp(self, [heap |-> heap, out |-> <<>>, exc |-> ""],
                            roots, FALSE, 0, "", "")
       IN  /\ heap' = S.heap
           /\ rules' = [a \in Apps |-> rules[a] \o RulesFor(S.out, a)]
           /\ registered' = Append(registered,
                 [self |-> self, raised |-> S.exc,
                  bindings |-> [i \in 1..Len(S.out) |->
                      [S.out[i] EXCEPT !.decorators = S.heap[@]]]])
    /\ UNCHANGED <<nodes, roots, thr, ndisp>>

\* ------------------------------------------------------- route trees (181-190)
\* The components lists handed to the constructors.
CompChoices == { <<>>, <<"A">>, <<"B", "A">>, <<"Component">> }

\* (prefix, namespace, name) of the first group and the first leaf.
Namings ==
    { <<"/users", "", "test">>,
      <<"/users/", "users.", "get">>,
      <<"", "", "">> }

Shapes == {"example", "nested", "siblings", "emptygroup", "nonegroup"}

\* `components or []` keeps a non-empty list object that is passed in, so a
\* caller that passes one list to two nodes makes them share it.
SharedRef(h, share, ref, own) ==
    IF share /\ h[ref] # <<>> THEN ref ELSE own

TreeNodes(shape, h, share, nm) ==
    LET leaf1 == Route("/<id>", "controller", "JSONAPIHandler", "GET", nm[3], 2)
    IN  CASE shape = "example" ->
               <<Include(nm[1], <<2>>, FALSE, 1, nm[2]), leaf1>>
          [] shape = "nested" ->
               <<Include(nm[1], <<3, 4>>, FALSE, 1, nm[2]),
                 leaf1,
                 Include("/v1", <<2>>, FALSE, SharedRef(h, share, 1, 3), "v1."),
                 Route("/all", "controller", "Handler", "POST", "all",
                       SharedRef(h, share, 2, 4))>>
          [] shape = "siblings" ->
               <<Include(nm[1], <<2>>, FALSE, 1, nm[2]),
                 leaf1,
                 Include("/b", <<4>>, FALSE, SharedRef(h, share, 1, 3), ""),
                 Route("/z", "controller", "Handler", "POST", "",
                       SharedRef(h, share, 2, 4))>>
          [] shape = "emptygroup" ->
               <<Include(nm[1], <<>>, FALSE, 1, nm[2]), leaf1>>
          [] shape = "nonegroup" ->
               <<Include(nm[1], <<>>, TRUE, 1, nm[2]), leaf1>>

TreeRoots(shape) ==
    CASE shape = "example" -> <<1>>
      [] shape = "nested" -> <<1>>
      [] shape = "siblings" -> <<1, 3>>
      [] shape = "emptygroup" -> <<1, 2>>
      [] shape = "nonegroup" -> <<1, 2>>

\* ---------------------------------------------------------- specification
InitTree(shape, ca, cl, share, nm) ==
    /\ heap = TreeHeap(ca, cl) \o [t \in Threads |-> <<>>]
    /\ nodes = TreeNodes(shape, heap, share, nm)
    /\ roots = TreeRoots(shape)
    /\ rules = [a \in Apps |-> <<>>]
    /\ registered = <<>>
    /\ thr = [t \in Threads |-> IdleFrame]
    /\ ndisp = 0

\* The tree shapes with the parameters of lines 183-190:
\* Include('/users', [...], components=[A]), Route('/<id>', components=[B],
\* name='test').
Init ==
    \E shape \in Shapes :
        InitTree(shape, <<"A">>, <<"B">>, FALSE, <<"/users", "", "test">>)

Step(t) == L45(t) \/ L50(t) \/ L51(t) \/ L55(t) \/ Return(t)

\* Requests are served one at a time (section 5: single-threaded).
Next ==
    \/ \E self \in Routers : AddRoutes(self)
    \/ \E t \in Threads : Request(t, TRUE)
    \/ \E t \in Threads : DirectCall(t, TRUE)
    \/ \E t \in Threads : Step(t)

Spec == Init /\ [][Next]_vars

\* The host serves requests on several threads: dispatches interleave.
NextThreaded ==
    \/ \E self \in Routers : AddRoutes(self)
    \/ \E t \in Threads : Request(t, FALSE)
    \/ \E t \in Threads : DirectCall(t, FALSE)
    \/ \E t \in Threads : Step(t)

SpecThreaded == Init /\ [][NextThreaded]_vars

\* Registration alone, over every route tree of the input sets.
InitTrees ==
    \E shape \in Shapes, ca \in CompChoices, cl \in CompChoices,
       share \in BOOLEAN, nm \in Namings :
        InitTree(shape, ca, cl, share, nm)

NextRegister == \E self \in Routers : AddRoutes(self)

SpecRegister == InitTrees /\ [][NextRegister]_vars

\* ================================================================ properties
\* Helpers of the properties below.
RECURSIVE Reverse(_)
Reverse(q) == IF q = <<>> THEN <<>> ELSE Append(Reverse(Tail(q)), Head(q))

Last(q) == q[Len(q)]
Front(q) == SubSeq(q, 1, Len(q) - 1)

\* D1(D2(...Dn(Concrete())...)) for the non-empty sequence <<D1, ..., Dn, Concrete>>
RECURSIVE Nest(_)
Nest(q) ==
    IF Len(q) = 1 THEN [cls |-> q[1]]
    ELSE [cls |-> Head(q), parent |-> Nest(Tail(q))]

Keys(d) == [i \in 1..Len(d) |-> d[i][1]]

Distinct(q) == \A i, j \in DOMAIN q : q[i] = q[j] => i = j

Active == {t \in Threads : thr[t].pc # "idle"}

\* C1: a dispatch entered with a non-empty sequence <<D1, ..., Dn, Concrete>>
\* reaches the controller, with the object D1(D2(...Dn(Concrete())...)):
\* the constructors ran in the order Concrete, Dn, ..., D1, and when every
\* Di and Concrete define the operation, the changes to its result are
\* applied in the order Concrete, Dn, ..., D1 (with distinct classes the
\* returned dict holds their keys in that order).
C1_ChainOrder ==
    \A t \in Active :
        LET f == thr[t]
        IN  f.entry # <<>> =>
              /\ f.pc = "raised" => f.called
              /\ f.called =>
                   /\ f.handler = Nest(f.entry)
                   /\ f.built = Reverse(f.entry)
                   /\ (\A i \in DOMAIN f.entry : ClassDefines(f.entry[i], "test")) =>
                        /\ f.exc = ""
                        /\ CallTest(f.handler).order = Reverse(f.entry)
                        /\ Distinct(f.entry) =>
                             Keys(f.printed) = <<"hello">> \o Reverse(Front(f.entry))

C1_Witness ==
    \E t \in Active :
        /\ thr[t].via = "rule"
        /\ thr[t].entry = <<"A", "B", "JSONAPIHandler">>
        /\ thr[t].pc = "done"
        /\ thr[t].printed = << <<"hello", "world">>, <<"B", "True">>, <<"A", "True">> >>

\* The least index of a class of q that defines the operation (0: none).
FirstDefining(q, name) ==
    IF \E i \in DOMAIN q : ClassDefines(q[i], name)
    THEN CHOOSE i \in DOMAIN q :
            /\ ClassDefines(q[i], name)
            /\ \A j \in 1..(i - 1) : ~ClassDefines(q[j], name)
    ELSE 0

\* C5: on the chain built for <<D1, ..., Dn, Concrete>>, an operation that
\* Concrete implements and no Di overrides yields exactly Concrete's result;
\* when some Di overrides it, the lookup is forwarded through exactly the
\* wrappers outside the outermost overriding Di and stops there.
C5_PassThrough ==
    \A t \in Active :
        LET f == thr[t]
            k == FirstDefining(f.entry, "test")
            a == GetAttr(f.handler, "test")
        IN  (f.entry # <<>> /\ f.called) =>
              /\ k = Len(f.entry) =>
                   /\ CallTest(f.handler) = CallTest(NewHandler(Last(f.entry)))
                   /\ f.printed = << <<"hello", "world">> >>
              /\ k # 0 =>
                   /\ a.found
                   /\ a.hops = k - 1
                   /\ a.owner = Nest(SubSeq(f.entry, k, Len(f.entry)))
              /\ k = 0 => ~a.found /\ f.exc = "AttributeError"

C5_Witness ==
    /\ \E t \in Active :
        /\ thr[t].entry = <<"Component", "JSONAPIHandler">>
        /\ thr[t].pc = "done"
        /\ thr[t].printed = << <<"hello", "world">> >>
        /\ GetAttr(thr[t].handler, "test").hops = 1

\* C8 (as stated): a dispatch entered with an empty sequence fails with a
\* ConfigurationError, having constructed nothing and not called the controller.
C8_EmptyRaisesConfigurationError ==
    \A t \in Active :
        LET f == thr[t]
        IN  f.entry = <<>> =>
              /\ f.pc \in {"L45", "raised"}
              /\ f.pc = "raised" => f.exc = "ConfigurationError"
              /\ f.built = <<>> /\ f.handler = NoObject /\ ~f.called

\* C8 (amended): a dispatch entered with an empty sequence fails with the
\* IndexError of list.pop() on line 45, having constructed nothing and not
\* called the controller.
C8_EmptyRaisesIndexError ==
    \A t \in Active :
        LET f == thr[t]
        IN  f.entry = <<>> =>
              /\ f.pc \in {"L45", "raised"}
              /\ f.pc = "raised" => f.exc = "IndexError"
              /\ f.built = <<>> /\ f.handler = NoObject /\ ~f.called

C8_Witness ==
    \E t \in Active :
        /\ thr[t].via = "direct"
        /\ thr[t].entry = <<>>
        /\ thr[t].pc = "raised"
        /\ thr[t].exc = "IndexError"

\* ------------------------------------------------ properties of registration
\* The group that holds node n in its child list (0 for a root node).
ParentOf(n) ==
    IF \E g \in DOMAIN nodes :
          nodes[g].kind = "Include" /\ \E i \in DOMAIN nodes[g].routes : nodes[g].routes[i] = n
    THEN CHOOSE g \in DOMAIN nodes :
          nodes[g].kind = "Include" /\ \E i \in DOMAIN nodes[g].routes : nodes[g].routes[i] = n
    ELSE 0

\* The groups that enclose node n, root first.
RECURSIVE Ancestors(_)
Ancestors(n) ==
    IF ParentOf(n) = 0 THEN <<>>
    ELSE Append(Ancestors(ParentOf(n)), ParentOf(n))

RECURSIVE ConcatComponents(_)
ConcatComponents(gs) ==
    IF gs = <<>> THEN <<>>
    ELSE heap[nodes[Head(gs)].components] \o ConcatComponents(Tail(gs))

RECURSIVE ConcatPrefixes(_)
ConcatPrefixes(gs) ==
    IF gs = <<>> THEN ""
    ELSE nodes[Head(gs)].prefix \o ConcatPrefixes(Tail(gs))

RECURSIVE ConcatNamespaces(_)
ConcatNamespaces(gs) ==
    IF gs = <<>> THEN ""
    ELSE nodes[Head(gs)].namespace \o ConcatNamespaces(Tail(gs))

Leaves == {n \in DOMAIN nodes : nodes[n].kind = "Route"}

\* Every binding that some add_routes call handed to add_url_rule.
Bindings ==
    UNION {{registered[i].bindings[j] : j \in DOMAIN registered[i].bindings} :
              i \in DOMAIN registered}

RegisteredLeaves(i) ==
    {registered[i].bindings[j].leaf : j \in DOMAIN registered[i].bindings}

\* C2: the decorator list bound for a leaf L under the groups G1 (root) ... Gk
\* is G1.components ++ ... ++ Gk.components ++ L.components ++ [L.handler],
\* and an add_routes call that completes binds every leaf exactly once.
C2_DecoratorOrder ==
    /\ \A b \in Bindings :
          /\ b.decorators =
                ConcatComponents(Ancestors(b.leaf))
                   \o heap[nodes[b.leaf].components] \o <<nodes[b.leaf].handler>>
          /\ Last(b.decorators) = nodes[b.leaf].handler
    /\ \A i \in DOMAIN registered :
          registered[i].raised = "" =>
              /\ RegisteredLeaves(i) = Leaves
              /\ Len(registered[i].bindings) = Cardinality(Leaves)

C2_Witness ==
    \E b \in Bindings :
        /\ Len(Ancestors(b.leaf)) = 2
        /\ b.decorators = <<"B", "A", "B", "Component", "JSONAPIHandler">>

\* C6 (as stated): the registered path is the concatenation of the group
\* prefixes and the leaf's path, and the registered name is the concatenation
\* of the group namespaces and the leaf's name.
C6_Path ==
    \A b \in Bindings :
        b.path = ConcatPrefixes(Ancestors(b.leaf)) \o nodes[b.leaf].path

C6_PlainConcatenation ==
    /\ C6_Path
    /\ \A b \in Bindings :
          b.name = Some(ConcatNamespaces(Ancestors(b.leaf)) \o nodes[b.leaf].name)

\* C6 (amended): the path as stated; the registered name is that concatenation
\* when it is not empty, and is absent (None) when it is the empty string.
C6_ConcatenationOrNone ==
    /\ C6_Path
    /\ \A b \in Bindings :
          LET s == ConcatNamespaces(Ancestors(b.leaf)) \o nodes[b.leaf].name
          IN  b.name = IF s = "" THEN None ELSE Some(s)

C6_Witness ==
    /\ \E b \in Bindings : b.path = "/users/<id>" /\ b.name = Some("test")
    /\ \E b \in Bindings : b.path = "/b/z" /\ b.name = None

\* C7: add_routes changes no components list and no child list of the tree,
\* and every add_routes call on the tree hands add_url_rule the same bindings
\* (path, name, decorator list, method, per leaf, in the same order).
C7_FlatteningIdempotent ==
    [][ /\ nodes' = nodes /\ roots' = roots
        /\ \A n \in DOMAIN nodes :
              heap'[nodes[n].components] = heap[nodes[n].components]
        /\ \A i, j \in DOMAIN registered' :
              registered'[i].bindings = registered'[j].bindings ]_vars

C7_Witness ==
    /\ Len(registered) = 2
    /\ Len(registered[1].bindings) = 2
    /\ registered[2].bindings = registered[1].bindings
    /\ nodes[3].components = nodes[1].components
    /\ nodes[4].components = nodes[2].components

\* C9: a group whose child list is None or empty registers nothing and stops
\* nothing: the call completes and every other leaf of the tree is registered.
C9_ChildlessGroupIsNoOp ==
    \A i \in DOMAIN registered :
        /\ registered[i].raised = ""
        /\ RegisteredLeaves(i) = Leaves

\* C10: every rule a Router registers goes to the routing table of the
\* application the Router was constructed with.
C10_RulesGoToOwnApp ==
    /\ \A i \in DOMAIN registered : \A j \in DOMAIN registered[i].bindings :
          registered[i].bindings[j].app = registered[i].self.app
    /\ \A a \in Apps :
          rules[a] # <<>> => \E i \in DOMAIN registered : registered[i].self.app = a

\* ---------------------------------------------------- properties of serving
\* The rules application a received, as they were when registered.
RECURSIVE RegisteredFor(_, _)
RegisteredFor(i, a) ==
    IF i = 0 THEN <<>>
    ELSE RegisteredFor(i - 1, a) \o RulesFor(registered[i].bindings, a)

\* The decorator list the binding that holds list object ref was registered with.
RegisteredList(ref) ==
    LET w == CHOOSE w \in {<<a, i>> : a \in Apps, i \in 1..Len(heap)} :
                 w[2] \in DOMAIN rules[w[1]] /\ rules[w[1]][w[2]].decorators = ref
    IN  RegisteredFor(Len(registered), w[1])[w[2]].decorators

\* A dispatch through a binding builds the complete chain of the registered
\* list and calls the controller with it.
BuildsRegisteredChain(t) ==
    LET f == thr[t]
    IN  f.via = "rule" =>
          /\ f.pc = "raised" => f.called
          /\ f.called => f.handler = Nest(RegisteredList(f.decorators))

\* C3: a registered binding is never mutated: its decorator list stays the
\* list computed at registration, and every dispatch of it builds the
\* complete chain and calls the controller.
C3_BindingNeverMutated ==
    /\ \A a \in Apps : \A i \in DOMAIN rules[a] :
          heap[rules[a][i].decorators] = RegisteredFor(Len(registered), a)[i].decorators
    /\ \A t \in Active : BuildsRegisteredChain(t)

\* C4: interleaved dispatches of one binding share no mutable state: a step
\* of one invocation removes nothing from a list another invocation uses,
\* and each builds the complete chain and calls the controller.
C4_NoSharedMutableState ==
    /\ [](\A t \in Active : BuildsRegisteredChain(t))
    /\ [][ \A t, u \in Threads :
              (t # u /\ thr[u].pc # "idle" /\ thr'[u] = thr[u] /\ thr'[t] # thr[t])
                 => heap'[thr[u].decorators] = heap[thr[u].decorators] ]_vars

====
